---------------------------- MODULE Spec2Model ----------------------------
(***************************************************************************)
(* Model of the mcp-postgres bridge (src/src/main.rs): the protocol        *)
(* gateway (messages_handler and the task it spawns), the result channel   *)
(* (tokio::sync::broadcast, created in main) and the subscription endpoint *)
(* (sse_handler).                                                          *)
(*                                                                         *)
(* The broadcast channel is modelled as the ring buffer it is: `buffer`    *)
(* holds the last Capacity values with the position each was sent at,      *)
(* `tail` is the next position to be written and `rx_cnt` the number of    *)
(* live receivers.  send fails exactly when rx_cnt = 0; recv returns the   *)
(* value at the receiver's cursor, waits when the cursor is at the tail    *)
(* and reports Lagged when the slot has been overwritten.                  *)
(*                                                                         *)
(* `published` (every value sent, with the request it answers) and the     *)
(* fields `since` and `reqs` of a subscriber (the tail and the number of   *)
(* requests submitted when it connected) are history: no guard reads them. *)
(*                                                                         *)
(* The tool handlers (src/src/handlers/queries.rs) are followed one call   *)
(* at a time in `call`, under ToolSpec: the guards, the store call and the *)
(* shaping of the rows.  Under Spec a handler is one step that returns Ok  *)
(* or Err.  FairSpec is Spec under the scheduling of the runtime.          *)
(***************************************************************************)
EXTENDS Integers, Sequences, FiniteSets, TLC

\* ------------------------------------------------------------------ bounds
\* Request slots (POSTs the gateway receives during a run).
NumReq == 3
\* Subscription endpoints (GET /sse connections opened during a run).
NumSub == 2
\* Slots of the broadcast ring buffer; stands for broadcast::channel(100),
\* scaled down so that a lagging receiver is reachable.
Capacity == 2
\* Size of a run: requests submitted times endpoints connected.
MaxLoad == 4

\* const MAX_ROWS: usize = 500, scaled down so that a result of MAX_ROWS rows
\* and more is reachable.
MAX_ROWS == 3

\* `for _ in 0..3` : publish attempts per Response.
MaxAttempts == 3

Reqs == 1..NumReq
Subs == 1..NumSub

VARIABLES req, http, task, buffer, tail, rx_cnt, sub, received, published, call

vars == <<req, http, task, buffer, tail, rx_cnt, sub, received, published, call>>

chan == <<buffer, tail, rx_cnt>>

\* ------------------------------------------------------------- the inputs
\* Null: the id is absent or JSON null.
Null == "null"
NoTool == "-"
None == "none"

\* Mutant: the `match tool_name` without the arm of sector_exposure.
KnownTools_NoSector == {"sql_read_query", "list_tables", "describe_table",
                        "portfolio_performance", "at_risk_positions"}

\* The names that have an arm in `match tool_name`.
KnownTools == {"sql_read_query", "list_tables", "describe_table",
               "portfolio_performance", "sector_exposure", "at_risk_positions"}

\* Mutant: the listing depends on what the channel has carried so far.
handle_list_tools_ByTraffic ==
  IF tail = 0
    THEN [tools |-> <<"sql_read_query", "list_tables", "describe_table",
                      "portfolio_performance", "at_risk_positions", "sector_exposure">>]
    ELSE [tools |-> <<"sector_exposure", "at_risk_positions", "portfolio_performance",
                      "describe_table", "list_tables", "sql_read_query">>]

\* handle_list_tools(): the descriptors' names, in declaration order.
handle_list_tools ==
  [tools |-> <<"sql_read_query", "list_tables", "describe_table",
               "portfolio_performance", "at_risk_positions", "sector_exposure">>]

\* The names tools/list advertises.
Advertised == {handle_list_tools.tools[i] : i \in DOMAIN handle_list_tools.tools}

\* The request bodies the clients of this model send: every branch of
\* messages_handler is taken by at least one of them.
Payloads ==
       [method : {"initialize", "notifications/initialized"},
        id : {Null, "7"}, tool : {NoTool}]
  \cup [method : {"tools/list"}, id : {"7", "9"}, tool : {NoTool}]
  \cup [method : {"resources/list"}, id : {"8"}, tool : {NoTool}]
  \cup [method : {"tools/call"}, id : {Null, "7", "8", "9"}, tool : {"list_tables"}]
  \cup [method : {"tools/call"}, id : {"9"},
        tool : Advertised \cup KnownTools \cup {"no_such_tool", NoTool}]

Call(id) == [method |-> "tools/call", id |-> id, tool |-> "list_tables"]
ListTools(id) == [method |-> "tools/list", id |-> id, tool |-> NoTool]
Initialize(id) == [method |-> "initialize", id |-> id, tool |-> NoTool]

\* The requests of one run, in the order they are submitted (a run sends a
\* prefix, of at most NumReq requests): any one request; a burst of concurrent
\* tool calls with distinct ids, then an initialize; two requests that carry
\* the same id; two tool listings around a tool call.
Sessions ==
       {<<p>> : p \in Payloads}
  \cup {<<Call("7"), Call("8"), Call("9"), Initialize(Null)>>,
        <<Call("7"), ListTools("7")>>,
        <<ListTools("7"), Call("8"), ListTools("9")>>}

\* ---------------------------------------------------------- pure functions

\* handle_initialize(): the capability descriptor.
handle_initialize ==
  [protocolVersion |-> "2024-11-05",
   capabilities |-> "tools.listChanged=false",
   serverInfo |-> <<"mcp-postgres", "0.1.0">>]

\* Mutant: the error flag is not set.
json_error_NoFlag(msg) == [isError |-> FALSE, text |-> msg]

\* json_error(msg)
json_error(msg) == [isError |-> TRUE, text |-> msg]

\* BridgeError::Api(msg), and the sqlx error `?` converts into a BridgeError.
Api(msg) == [kind |-> "Api", msg |-> msg]
Sqlx == [kind |-> "Sqlx", msg |-> <<"db error">>]

\* e.to_string(): the Display of a BridgeError (crate::error) shows the
\* error's message after the name of its kind.
ErrToString(e) == <<e.kind, ": ">> \o e.msg

\* Mutant: the Err arm builds a result without the error flag.
ToolErr_NoFlag(e) == [isError |-> FALSE, text |-> ErrToString(e)]

\* The Err arm of `match res`: isError with the error's text.
ToolErr(e) == [isError |-> TRUE, text |-> ErrToString(e)]

\* Mutant: the message does not name the tool.
UnknownTool_NoName(name) == Api(<<"Unknown tool">>)

\* The `_` arm of `match tool_name`.
UnknownTool(name) == Api(<<"Unknown tool: ", name>>)

\* params.name as a string, "" when it is missing or not a string.
tool_name(p) == IF p.tool = NoTool THEN "" ELSE p.tool

\* The Ok arm of `match res`: a result without isError.
json_ok(t) == [isError |-> FALSE, text |-> t]

\* Mutant: the id is not echoed.
McpResponse_NoId(id, result) ==
  [jsonrpc |-> "2.0", id |-> Null, result |-> result]

\* McpResponse { jsonrpc: "2.0", id: request_id, result }
McpResponse(id, result) ==
  [jsonrpc |-> "2.0", id |-> id, result |-> result]

\* serde_json::to_string(&response): the fields in declaration order.
to_string(response) == <<response.jsonrpc, response.id, response.result>>

\* The id and the result a subscriber reads back from a serialized message.
MsgId(m) == m[2]
MsgResult(m) == m[3]

\* payload.id.clone().unwrap_or(Value::Null)
request_id(p) == p.id

\* ------------------------------------------------------------ the channel

EmptySlot == [pos |-> -1, val |-> <<>>]

\* Mutant: a send without receiver succeeds.
SendOk_Always == TRUE

\* Mutant: a send fails only while the channel has never held a value.
SendOk_EverSent == rx_cnt > 0 \/ tail > 0

\* tx.send(v): Err when there is no receiver, else the value is written at
\* the tail, over the oldest one.
SendOk == rx_cnt > 0

BufferAfterSend(v) ==
  [buffer EXCEPT ![tail % Capacity] = [pos |-> tail, val |-> v]]

\* Mutant: the cursor of a fresh receiver is one behind the tail.
SubscribeCursor_Back == IF tail > 0 THEN tail - 1 ELSE tail

\* state.tx.subscribe(): the cursor of a fresh receiver is the tail, so it
\* sees only what is sent from now on.
SubscribeCursor == tail

\* Mutant: recv takes the value out of its slot, as a queue would.
BufferAfterRecv_Take(next) == [buffer EXCEPT ![next % Capacity] = EmptySlot]

\* A value stays in its slot for the other receivers: recv does not take it.
BufferAfterRecv(next) == buffer

\* rx.recv() for a receiver whose cursor is `next`.
RecvReady(next) == buffer[next % Capacity].pos = next
RecvEmpty(next) == next = tail
RecvLagged(next) == ~RecvReady(next) /\ ~RecvEmpty(next)

\* ------------------------------------------------------------------- Init

\* No result has been computed.
NoResult == [isError |-> FALSE, text |-> <<>>, none |-> TRUE]
NoReq == [method |-> None, id |-> Null, tool |-> NoTool]
NoTask == [pc |-> "none", attempts |-> 0, delivered |-> FALSE, warned |-> FALSE,
           calls |-> 0, result |-> NoResult]
NoHttp == [status |-> 0, body |-> None]
\* No tool handler is being followed.
NoCall == [pc |-> "idle"]

Init ==
  /\ req = [r \in Reqs |-> NoReq]
  /\ http = [r \in Reqs |-> NoHttp]
  /\ task = [r \in Reqs |-> NoTask]
  /\ buffer = [i \in 0..(Capacity - 1) |-> EmptySlot]
  /\ tail = 0
  /\ rx_cnt = 0
  /\ sub = [s \in Subs |-> [state |-> "idle", next |-> 0, since |-> 0, reqs |-> 0]]
  /\ received = [s \in Subs |-> <<>>]
  /\ published = <<>>
  /\ call = NoCall

Attached == {s \in Subs : sub[s].state = "open"}

\* Connections accepted so far: POSTs and GETs.
Submitted == Cardinality({r \in Reqs : req[r] # NoReq})
Connected == Cardinality({s \in Subs : sub[s].state # "idle"})

\* ------------------------------------------------------ sse_handler (GET)

\* state.tx.subscribe(): a fresh receiver whose cursor is the tail.
SseConnect(s) ==
  /\ sub[s].state = "idle"
  /\ (s > 1 => sub[s - 1].state # "idle")
  /\ Submitted * (Connected + 1) <= MaxLoad
  /\ sub' = [sub EXCEPT ![s] = [state |-> "open", next |-> SubscribeCursor, since |-> tail,
                                  reqs |-> Submitted]]
  /\ rx_cnt' = rx_cnt + 1
  /\ UNCHANGED <<req, http, task, buffer, tail, received, published, call>>

\* One poll of the unfold stream with a value ready: Ok(msg) is pushed as an event.
SseRecvOk(s) ==
  /\ sub[s].state = "open"
  /\ RecvReady(sub[s].next)
  /\ received' = [received EXCEPT ![s] = Append(@, buffer[sub[s].next % Capacity].val)]
  /\ sub' = [sub EXCEPT ![s].next = @ + 1]
  /\ buffer' = BufferAfterRecv(sub[s].next)
  /\ UNCHANGED <<req, http, task, tail, rx_cnt, published, call>>

\* One poll with the cursor overwritten: Err(Lagged) => None, the stream
\* completes and the receiver is dropped.
SseRecvErr(s) ==
  /\ sub[s].state = "open"
  /\ RecvLagged(sub[s].next)
  /\ sub' = [sub EXCEPT ![s].state = "ended"]
  /\ rx_cnt' = rx_cnt - 1
  /\ UNCHANGED <<req, http, task, buffer, tail, received, published, call>>

\* The client's connection is lost: the stream and its receiver are dropped.
\* What that client had received is no longer observed.
SseDisconnect(s) ==
  /\ sub[s].state = "open"
  /\ sub' = [sub EXCEPT ![s] = [state |-> "closed", next |-> 0, since |-> 0, reqs |-> 0]]
  /\ received' = [received EXCEPT ![s] = <<>>]
  /\ rx_cnt' = rx_cnt - 1
  /\ UNCHANGED <<req, http, task, buffer, tail, published, call>>

\* p as the r-th request continues one of the Sessions.
Admitted(r, p) ==
  \E ses \in Sessions :
    /\ r <= Len(ses)
    /\ ses[r] = p
    /\ \A q \in 1..(r - 1) : req[q] = ses[q]

\* ------------------------------------------------- messages_handler (POST)

\* Mutant: initialize is dispatched like any other method.
SyncMethod_Never(m) == FALSE

\* `if method == "initialize"`: answered in the HTTP response itself.
SyncMethod(m) == m = "initialize"

\* Mutant: `||` for `&&`.
IsDropped_Or(p) == request_id(p) = Null \/ p.method # "notifications/initialized"

\* Mutant: no request is dropped.
IsDropped_Never(p) == FALSE

\* `request_id.is_null() && method != "notifications/initialized"`: the task
\* returns at once.
IsDropped(p) == request_id(p) = Null /\ p.method # "notifications/initialized"

\* Mutant: the loop runs once more.
LoopAgain_OneMore(n) == n <= MaxAttempts

\* `for _ in 0..3`: after n failed attempts there is another one.
LoopAgain(n) == n < MaxAttempts

\* The synchronous part, for method initialize: 200 with the Response.
SubmitInitialize(r, p) ==
  /\ SyncMethod(p.method)
  /\ http' = [http EXCEPT ![r] =
                [status |-> 200, body |-> McpResponse(request_id(p), handle_initialize)]]
  /\ UNCHANGED task

\* The synchronous part, any other method: the task is spawned.
SubmitSpawn(r, p) ==
  /\ ~SyncMethod(p.method)
  /\ task' = [task EXCEPT ![r].pc = "spawned"]
  /\ UNCHANGED http

Submit(r) ==
  /\ req[r] = NoReq
  /\ (r > 1 => req[r - 1] # NoReq)
  /\ (Submitted + 1) * Connected <= MaxLoad
  /\ \E p \in Payloads :
       /\ Admitted(r, p)
       /\ req' = [req EXCEPT ![r] = p]
       /\ SubmitInitialize(r, p) \/ SubmitSpawn(r, p)
  /\ UNCHANGED <<chan, sub, received, published, call>>

\* Mutant: the acknowledgement is a 200.
AckResponse_Ok == [status |-> 200, body |-> None]

\* StatusCode::ACCEPTED.into_response()
AckResponse == [status |-> 202, body |-> None]

\* The handler returns the acknowledgement, after tokio::spawn returned: the
\* spawned task is already runnable, on any worker thread.
Ack(r) ==
  /\ task[r].pc # "none"
  /\ http[r].status = 0
  /\ http' = [http EXCEPT ![r] = AckResponse]
  /\ UNCHANGED <<req, task, chan, sub, received, published, call>>

\* ------------------------------------------------------ the spawned task

\* The task up to its first suspension point or its result: the drop of a
\* request without id, then `match method`.
Dispatched(r) ==
  LET p == req[r]
      m == p.method
      t == task[r]
  IN IF IsDropped(p)
       THEN [t EXCEPT !.pc = "done"]
     ELSE IF m = "tools/list"
       THEN [t EXCEPT !.pc = "publish", !.result = handle_list_tools]
     ELSE IF m = "tools/call"
       THEN IF tool_name(p) \in KnownTools
              THEN [t EXCEPT !.pc = "handler", !.calls = @ + 1]
              ELSE [t EXCEPT !.pc = "publish",
                             !.result = ToolErr(UnknownTool(tool_name(p)))]
     ELSE IF m = "notifications/initialized"
       THEN [t EXCEPT !.pc = "done"]
     ELSE [t EXCEPT !.pc = "publish",
                    !.result = json_error(<<"Method ", m, " not supported">>)]

\* Mutant: a task starts only while no other task is awaiting its handler.
TaskStart_Serial(r) ==
  /\ task[r].pc = "spawned"
  /\ \A q \in Reqs \ {r} : task[q].pc # "handler"
  /\ task' = [task EXCEPT ![r] = Dispatched(r)]
  /\ UNCHANGED <<req, http, chan, sub, received, published, call>>

\* The spawned task runs, whatever the other tasks are doing.
TaskStart(r) ==
  /\ task[r].pc = "spawned"
  /\ task' = [task EXCEPT ![r] = Dispatched(r)]
  /\ UNCHANGED <<req, http, chan, sub, received, published, call>>

\* The awaited tool handler returns Ok(text) or Err(e); `match res`.
HandlerReturn(r) ==
  /\ task[r].pc = "handler"
  /\ \E ok \in BOOLEAN :
       task' = [task EXCEPT ![r].pc = "publish",
                            ![r].result = IF ok THEN json_ok("rows")
                                                ELSE ToolErr(Sqlx)]
  /\ UNCHANGED <<req, http, chan, sub, received, published, call>>

\* Mutant: no `break` after a successful send.
PcAfterAttempt_NoBreak(ok, n) ==
  IF LoopAgain(n) THEN "publish" ELSE "done"

\* Mutant: a failed publish starts the task over.
PcAfterAttempt_Reexec(ok, n) ==
  IF ok THEN "done" ELSE IF LoopAgain(n) THEN "spawned" ELSE "done"

\* Where the task goes after its n-th attempt: `break` on Ok; on Err the
\* 100 ms sleep, then the next iteration or the end of the loop.
PcAfterAttempt(ok, n) ==
  IF ok THEN "done" ELSE IF LoopAgain(n) THEN "publish" ELSE "done"

\* One iteration of the publish loop: tx.send(json_msg.clone()); on Ok,
\* delivered = true; the other tasks run during the sleep; once the loop is
\* over, `if !delivered { warn!(..) }`.
TrySend(r) ==
  /\ task[r].pc = "publish"
  /\ LET json_msg == to_string(McpResponse(request_id(req[r]), task[r].result))
         n == task[r].attempts + 1
         ok == SendOk
         delivered == task[r].delivered \/ ok
         pc == PcAfterAttempt(ok, n)
     IN /\ IF ok
             THEN /\ buffer' = BufferAfterSend(json_msg)
                  /\ tail' = tail + 1
                  /\ published' = Append(published, [msg |-> json_msg, req |-> r])
             ELSE UNCHANGED <<buffer, tail, published>>
        /\ task' = [task EXCEPT ![r] =
                      [@ EXCEPT !.pc = pc, !.attempts = n, !.delivered = delivered,
                                !.warned = (pc = "done" /\ ~delivered)]]
  /\ UNCHANGED <<req, http, rx_cnt, sub, received, call>>

Next ==
  \/ \E s \in Subs : SseConnect(s)
  \/ \E s \in Subs : SseRecvOk(s)
  \/ \E s \in Subs : SseRecvErr(s)
  \/ \E s \in Subs : SseDisconnect(s)
  \/ \E r \in Reqs : Submit(r)
  \/ \E r \in Reqs : Ack(r)
  \/ \E r \in Reqs : TaskStart(r)
  \/ \E r \in Reqs : HandlerReturn(r)
  \/ \E r \in Reqs : TrySend(r)

Spec == Init /\ [][Next]_vars

\* The request whose handler may never return.
Hung == 2

\* Fair scheduling: the runtime runs every task that can run (tokio::spawn,
\* messages_handler up to its acknowledgement, the publish loop with its sleep)
\* and every open stream is polled; every handler returns except, possibly,
\* the one of request Hung.  Clients are under no obligation.
FairSpec ==
  /\ Spec
  /\ \A r \in Reqs : WF_vars(Ack(r)) /\ WF_vars(TaskStart(r)) /\ WF_vars(TrySend(r))
  /\ \A r \in Reqs \ {Hung} : WF_vars(HandlerReturn(r))
  /\ \A s \in Subs : WF_vars(SseRecvOk(s)) /\ WF_vars(SseRecvErr(s))

\* ------------------------------------------------- the tool handlers
\* (handlers/queries.rs).  A text is the sequence of its characters; a
\* character outside ASCII is written by its code point.

Ok(v) == [ok |-> TRUE, val |-> v]
Err(e) == [ok |-> FALSE, val |-> e]

\* An optional argument of the call, and Option::unwrap_or.
NoArg == [some |-> FALSE, v |-> <<>>]
NoNumber == [some |-> FALSE, v |-> 0]
Some(v) == [some |-> TRUE, v |-> v]
unwrap_or(arg, default) == IF arg.some THEN arg.v ELSE default

IsWhitespace(c) == c \in {" ", "\n"}

\* char::to_uppercase on the letters of the texts below.
UpperCase ==
  "s" :> "S" @@ "e" :> "E" @@ "l" :> "L" @@ "c" :> "C" @@ "t" :> "T" @@
  "w" :> "W" @@ "i" :> "I" @@ "h" :> "H" @@ "x" :> "X" @@ "q" :> "Q"

to_uppercase(s) ==
  [i \in DOMAIN s |-> IF s[i] \in DOMAIN UpperCase THEN UpperCase[s[i]] ELSE s[i]]

RECURSIVE trim_start(_)
trim_start(s) ==
  IF s # <<>> /\ IsWhitespace(Head(s)) THEN trim_start(Tail(s)) ELSE s

RECURSIVE trim_end(_)
trim_end(s) ==
  IF s # <<>> /\ IsWhitespace(s[Len(s)]) THEN trim_end(SubSeq(s, 1, Len(s) - 1)) ELSE s

trim(s) == trim_end(trim_start(s))

starts_with(s, prefix) ==
  Len(s) >= Len(prefix) /\ SubSeq(s, 1, Len(prefix)) = prefix

\* fn is_read_only(sql)
is_read_only(sql) ==
  LET normalized == to_uppercase(trim(sql))
  IN \/ starts_with(normalized, <<"S", "E", "L", "E", "C", "T">>)
     \/ starts_with(normalized, <<"W", "I", "T", "H">>)

\* char::is_alphanumeric: the ASCII letters and digits, and the letters and
\* digits of the other scripts (U+00E9 is a letter, U+0663 a digit).
AsciiAlphanumeric == {"a", "b", "t", "T", "0", "1"}
OtherAlphanumeric == {"U+00E9", "U+0663"}
is_alphanumeric(c) == c \in AsciiAlphanumeric \cup OtherAlphanumeric

\* The identifier guard of describe_table: the table name passes.
ValidTable(table) ==
  ~(table = <<>> \/ ~(\A i \in DOMAIN table : is_alphanumeric(table[i]) \/ table[i] = "_"))

\* The backing store: the rows a query yields, in the query's own order, and
\* the rows fetch_all returns for the query wrapped in `LIMIT {MAX_ROWS}`.
Underlying(n) == [i \in 1..n |-> i]
Limit(rows) == SubSeq(rows, 1, IF Len(rows) < MAX_ROWS THEN Len(rows) ELSE MAX_ROWS)

\* The text a handler returns: the pretty-printed JSON array of the rows,
\* followed or not by the truncation notice; or a plain sentence.
RowsText(rows, notice) == [kind |-> "rows", rows |-> rows, notice |-> notice]
PlainText(t) == [kind |-> "plain", text |-> t]

\* Mutant: the notice is appended only past MAX_ROWS.
Truncated_Over(count) == count > MAX_ROWS

\* `count == MAX_ROWS`
Truncated(count) == count = MAX_ROWS

\* query_to_json(state, sql): what a handler returns and the number of
\* store calls it made, for a query of n rows on a store that fails or not.
query_to_json(n, fails) ==
  IF fails
    THEN [res |-> Err(Sqlx), queries |-> 1]
    ELSE LET rows == Limit(Underlying(n))
             count == Len(rows)
         IN [res |-> Ok(RowsText(rows, Truncated(count))), queries |-> 1]

\* sql_read_query(state, sql)
sql_read_query(sql, n, fails) ==
  IF sql = <<>>
    THEN [res |-> Ok(PlainText(<<"Query is empty">>)), queries |-> 0]
  ELSE IF ~is_read_only(sql)
    THEN [res |-> Err(Api(<<"Read-only mode: only SELECT and WITH...SELECT queries are allowed.">>)),
          queries |-> 0]
  ELSE IF fails
    THEN [res |-> Err(Sqlx), queries |-> 1]
  ELSE LET rows == Limit(Underlying(n))
           count == Len(rows)
       IN [res |-> Ok(RowsText(rows, Truncated(count))), queries |-> 1]

\* list_tables(state): the query is sent as it is, every row is collected.
list_tables(n, fails) ==
  IF fails
    THEN [res |-> Err(Sqlx), queries |-> 1]
    ELSE [res |-> Ok(RowsText(Underlying(n), FALSE)), queries |-> 1]

\* describe_table(state, table): n is the number of columns the store knows
\* for the table, 0 for a table it does not know.
describe_table(table, n, fails) ==
  IF ~ValidTable(table)
    THEN [res |-> Err(Api(<<"Invalid table name: '", table, "'">>)), queries |-> 0]
  ELSE IF fails
    THEN [res |-> Err(Sqlx), queries |-> 1]
  ELSE IF Underlying(n) = <<>>
    THEN [res |-> Ok(PlainText(<<"Table '", table, "' not found in public schema.">>)),
          queries |-> 1]
  ELSE [res |-> Ok(RowsText(Underlying(n), FALSE)), queries |-> 1]

portfolio_performance(n, fails) == query_to_json(n, fails)
sector_exposure(n, fails) == query_to_json(n, fails)

\* at_risk_positions(state, drawdown_threshold)
at_risk_positions(drawdown_threshold, n, fails) ==
  IF drawdown_threshold <= 0 \/ drawdown_threshold > 100
    THEN [res |-> Err(Api(<<"drawdown_threshold must be between 0.0 and 100.0">>)),
          queries |-> 0]
    ELSE query_to_json(n, fails)

\* The arguments of the calls of this model.
SqlTexts ==
  {<<>>,
   <<" ", " ">>,
   <<"D", "R", "O", "P", " ", "T", "A", "B", "L", "E", " ", "x">>,
   <<"D", "E", "L", "E", "T", "E">>,
   <<"S", "E", "L", "E", "C">>,
   <<"x", " ", "S", "E", "L", "E", "C", "T">>,
   <<"S", "E", "L", "E", "C", "T", " ", "1">>,
   <<"\n", " ", "s", "e", "l", "e", "c", "t", " ", "1", " ">>,
   <<"W", "i", "t", "h", " ", "q">>}

TableNames ==
  {<<>>, <<"_">>, <<"t", "1">>, <<"a", "_", "b">>, <<"T", "0">>,
   <<"t", ";">>, <<"t", " ">>, <<"U+00E9">>, <<"t", "U+0663">>}

Thresholds == {0, 10, 100, 101}

\* Rows the underlying query of a call may yield.
RowCounts == 0..(MAX_ROWS + 2)

\* The `match tool_name` of messages_handler for a registered tool: the
\* arguments are read from params.arguments and the handler is awaited.
Handle(c) ==
  CASE c.tool = "sql_read_query" -> sql_read_query(unwrap_or(c.sql, <<>>), c.n, c.fails)
    [] c.tool = "list_tables" -> list_tables(c.n, c.fails)
    [] c.tool = "describe_table" -> describe_table(unwrap_or(c.table, <<>>), c.n, c.fails)
    [] c.tool = "portfolio_performance" -> portfolio_performance(c.n, c.fails)
    [] c.tool = "sector_exposure" -> sector_exposure(c.n, c.fails)
    [] c.tool = "at_risk_positions" ->
         at_risk_positions(unwrap_or(c.threshold, 10), c.n, c.fails)

\* The arguments a call of `tool` is given in this model.
SqlArgs(tool) ==
  IF tool = "sql_read_query" THEN {NoArg} \cup {Some(t) : t \in SqlTexts} ELSE {NoArg}
TableArgs(tool) ==
  IF tool = "describe_table" THEN {NoArg} \cup {Some(t) : t \in TableNames} ELSE {NoArg}
ThresholdArgs(tool) ==
  IF tool = "at_risk_positions" THEN {NoNumber} \cup {Some(t) : t \in Thresholds}
                                ELSE {NoNumber}

\* A tools/call of a registered tool reaches `match tool_name`, on a store
\* whose answer to the handler's query is n rows, or an error.
ToolInvoke ==
  /\ call.pc = "idle"
  /\ \E tool \in KnownTools, n \in RowCounts, fails \in BOOLEAN :
       \E sql \in SqlArgs(tool), table \in TableArgs(tool), threshold \in ThresholdArgs(tool) :
         call' = [pc |-> "called", tool |-> tool, sql |-> sql, table |-> table,
                  threshold |-> threshold, n |-> n, fails |-> fails]
  /\ UNCHANGED <<req, http, task, chan, sub, received, published>>

\* The handler returns.
ToolReturn ==
  /\ call.pc = "called"
  /\ LET out == Handle(call)
     IN call' = [tool |-> call.tool, sql |-> call.sql, table |-> call.table,
                 threshold |-> call.threshold, n |-> call.n, fails |-> call.fails,
                 pc |-> "returned", res |-> out.res, queries |-> out.queries]
  /\ UNCHANGED <<req, http, task, chan, sub, received, published>>

\* `match res`: the result of the Response.
ToolMatch ==
  /\ call.pc = "returned"
  /\ call' = [tool |-> call.tool, sql |-> call.sql, table |-> call.table,
              threshold |-> call.threshold, n |-> call.n, fails |-> call.fails,
              res |-> call.res, queries |-> call.queries,
              pc |-> "matched",
              result |-> IF call.res.ok THEN json_ok(call.res.val)
                                        ELSE ToolErr(call.res.val)]
  /\ UNCHANGED <<req, http, task, chan, sub, received, published>>

ToolNext == ToolInvoke \/ ToolReturn \/ ToolMatch

ToolSpec == Init /\ [][ToolNext]_vars


\* ----------------------------------------------------------------- claims

\* The positions of `published` that answer request r.
Sent(r) == {i \in DOMAIN published : published[i].req = r}

\* Request r was submitted with an id and is answered through the channel.
Answerable(r) ==
  /\ req[r] # NoReq
  /\ req[r].id # Null
  /\ req[r].method \notin {"initialize", "notifications/initialized"}

\* What C1 allows for a request with an id: never two Responses; once its
\* task is over, one Response, or none and the delivery-failure warning.
OneOrAbandoned(r) ==
  /\ Cardinality(Sent(r)) <= 1
  /\ \A i \in Sent(r) : MsgId(published[i].msg) = req[r].id
  /\ task[r].pc = "done" =>
       \/ Cardinality(Sent(r)) = 1 /\ ~task[r].warned
       \/ Cardinality(Sent(r)) = 0 /\ task[r].warned /\ task[r].attempts = MaxAttempts

\* C1 as stated: every submitted Request with an id whose method is not
\* initialize gets exactly one published Response, or none only when its
\* delivery was abandoned after all publish attempts failed.
C1_Original ==
  \A r \in Reqs :
    (req[r] # NoReq /\ req[r].id # Null /\ req[r].method # "initialize")
      => OneOrAbandoned(r)

\* C1 amended: every submitted Request with an id whose method is neither
\* initialize nor notifications/initialized gets exactly one published
\* Response carrying its id, or none only when its delivery was abandoned
\* after all publish attempts failed; never two.
C1_OneResponseOrAbandoned ==
  \A r \in Reqs : Answerable(r) => OneOrAbandoned(r)

\* One request answered and another abandoned, in the same run.
C1_Witness ==
  \E r, q \in Reqs :
    /\ Answerable(r) /\ Answerable(q)
    /\ task[r].pc = "done" /\ Cardinality(Sent(r)) = 1
    /\ task[q].pc = "done" /\ task[q].warned /\ Cardinality(Sent(q)) = 0

\* A step that is a publish attempt of task r.
Attempt(r) == task[r].pc = "publish" /\ task'[r] # task[r]

\* C2 as stated: a publish while the channel has no subscriber succeeds: it is
\* no failure, no retry follows and no delivery-failure warning.
C2_Original ==
  [][\A r \in Reqs :
       (Attempt(r) /\ rx_cnt = 0)
         => task'[r].delivered /\ task'[r].pc = "done" /\ ~task'[r].warned]_vars

\* C2 amended: a publish attempt made while the channel has no subscriber
\* fails: nothing enters the channel, the attempt counts as one of the three,
\* another attempt follows unless it was the third, and after the third the
\* delivery-failure warning is logged.
C2_NoSubscriberPublishFails ==
  [][\A r \in Reqs :
       (Attempt(r) /\ rx_cnt = 0)
         => /\ UNCHANGED <<buffer, tail, published>>
            /\ ~task'[r].delivered
            /\ task'[r].attempts = task[r].attempts + 1
            /\ task'[r].pc = (IF task'[r].attempts < MaxAttempts THEN "publish" ELSE "done")
            /\ task'[r].warned = (task'[r].attempts = MaxAttempts)]_vars

\* A task between two attempts, the first one failed for want of a subscriber.
C2_Witness ==
  \E r \in Reqs :
    /\ task[r].pc = "publish" /\ task[r].attempts = 1 /\ ~task[r].delivered
    /\ rx_cnt = 0 /\ published = <<>>

\* C3: a Response gets at most 3 publish attempts; no attempt follows a
\* successful one; the third failed attempt ends the task with the
\* delivery-failure warning and changes neither the channel, nor the
\* subscribers, nor any other task.
C3_AtMostThreeAttempts ==
  [][\A r \in Reqs :
       /\ task'[r].attempts <= MaxAttempts
       /\ task[r].delivered => task'[r] = task[r]
       /\ task'[r].warned => ~task'[r].delivered /\ task'[r].attempts = MaxAttempts
       /\ task'[r].attempts # task[r].attempts =>
            /\ task'[r].attempts = task[r].attempts + 1
            /\ task'[r].delivered => task'[r].pc = "done" /\ ~task'[r].warned
            /\ (~task'[r].delivered /\ task'[r].attempts < MaxAttempts)
                 => task'[r].pc = "publish" /\ ~task'[r].warned
            /\ (~task'[r].delivered /\ task'[r].attempts = MaxAttempts)
                 => /\ task'[r].pc = "done" /\ task'[r].warned
                    /\ UNCHANGED <<req, http, buffer, tail, rx_cnt, sub, received, published>>
                    /\ \A q \in Reqs \ {r} : task'[q] = task[q]]_vars

\* One Response abandoned after three attempts, another delivered at its third.
C3_Witness ==
  \E r, q \in Reqs :
    /\ task[r].warned /\ task[r].attempts = MaxAttempts
    /\ task[q].delivered /\ task[q].attempts = MaxAttempts

\* Request r is over: answered in the HTTP response, or its task has ended.
Over(r) == req[r] # NoReq /\ task[r].pc \in {"none", "done"}
AllOver == \A r \in Reqs : req[r] = NoReq \/ Over(r)

\* Subscriber s connected before request r was submitted and is still attached.
ConnectedBefore(s, r) == sub[s].state = "open" /\ sub[s].reqs < r

\* s has read everything sent so far.
CaughtUp(s) == sub[s].next = tail

\* The messages s received whose id is `id`.
IdCount(s, id) ==
  Cardinality({i \in DOMAIN received[s] : MsgId(received[s][i]) = id})

\* No other submitted request carries the id of r.
UniqueId(r) == \A q \in Reqs \ {r} : req[q].id # req[r].id

\* C4 as stated: an endpoint connected before a Request with an id is
\* submitted, and still connected, has received exactly one message with that
\* id once every submitted request is over and it has read all that was sent.
C4_Original ==
  \A r \in Reqs : \A s \in Subs :
    (req[r] # NoReq /\ req[r].id # Null /\ ConnectedBefore(s, r) /\ AllOver /\ CaughtUp(s))
      => IdCount(s, req[r].id) = 1

\* C4 amended: for a Request with an id whose method is neither initialize nor
\* notifications/initialized and whose id no other submitted Request carries,
\* an endpoint connected before it was submitted, and still connected,
\* receives exactly one message with that id: the Response is never abandoned,
\* it is sent after the endpoint subscribed, and the endpoint holds no message
\* with that id before it reads that place of the channel and one after.
C4_ConnectedBeforeReceivesOne ==
  \A r \in Reqs : \A s \in Subs :
    (Answerable(r) /\ UniqueId(r) /\ ConnectedBefore(s, r))
      => /\ IdCount(s, req[r].id) <= 1
         /\ task[r].pc = "done" =>
              /\ task[r].delivered
              /\ \A i \in Sent(r) :
                   /\ i > sub[s].since
                   /\ IdCount(s, req[r].id) = (IF sub[s].next >= i THEN 1 ELSE 0)

\* The endpoint received the Response to "7" among the Responses to other requests.
C4_Witness ==
  \E r \in Reqs : \E s \in Subs :
    /\ Answerable(r) /\ UniqueId(r) /\ ConnectedBefore(s, r)
    /\ req[r].id = "7" /\ task[r].pc = "done"
    /\ IdCount(s, "7") = 1 /\ Len(received[s]) >= 2

\* C5: an open subscription stream stays open until the client's connection
\* is lost: no step takes it from open to anything but open or closed.
C5_StreamNeverCompletes ==
  [][\A s \in Subs :
       sub[s].state = "open" => sub'[s].state \in {"open", "closed"}]_vars

\* Every submitted request is a tool call with an id, the ids pairwise distinct.
DistinctCalls ==
  /\ Submitted >= 1
  /\ \A r \in Reqs : req[r] # NoReq => req[r].method = "tools/call" /\ req[r].id # Null
  /\ \A r, q \in Reqs : (req[r] # NoReq /\ req[q] # NoReq /\ r # q) => req[r].id # req[q].id

\* The messages sent so far, in order.
PublishedMsgs == [i \in DOMAIN published |-> published[i].msg]

C7_InitializeSynchronous ==
  \A r \in Reqs :
    (req[r] # NoReq /\ req[r].method = "initialize")
      => /\ http[r].status = 200
         /\ http[r].body.jsonrpc = "2.0"
         /\ http[r].body.id = req[r].id
         /\ {"protocolVersion", "serverInfo"} \subseteq DOMAIN http[r].body.result
         /\ task[r] = NoTask
         /\ Sent(r) = {}

\* An initialize with id "7" answered 200 while an endpoint is attached.
C7_Witness ==
  \E r \in Reqs :
    /\ req[r].method = "initialize" /\ req[r].id = "7"
    /\ http[r].status = 200 /\ http[r].body.id = "7"
    /\ rx_cnt > 0

C9_ReceivedInPublishOrder ==
  \A s \in Subs :
    sub[s].state \in {"open", "ended"}
      => /\ Len(received[s]) = sub[s].next - sub[s].since
         /\ \A i \in DOMAIN received[s] :
              /\ sub[s].since + i \in DOMAIN published
              /\ received[s][i] = published[sub[s].since + i].msg

\* One endpoint read two messages; another, subscribed after the first was
\* published, read the second only.
C9_Witness ==
  \E s, t \in Subs :
    /\ sub[s].state = "open" /\ Len(received[s]) >= 2
    /\ received[s][1] # received[s][2]
    /\ sub[t].state = "open" /\ sub[t].since >= 1 /\ Len(received[t]) >= 1

\* The i-th published message was sent while s was attached: s is attached
\* since before it, or s's stream ended after it (the message at the cursor
\* of a lagging receiver was sent, and overwritten, while it was attached).
AttachedWhenPublished(s, i) ==
  /\ i \in DOMAIN published
  /\ i > sub[s].since
  /\ \/ sub[s].state = "open"
     \/ sub[s].state = "ended" /\ i <= sub[s].next + 1

\* s will read nothing more of what was sent so far.
DoneReading(s) == sub[s].state = "ended" \/ (sub[s].state = "open" /\ CaughtUp(s))

\* C10 as stated: every endpoint attached when a Response is published
\* receives it (unless its client disconnects).
C10_Original ==
  \A s \in Subs : \A i \in DOMAIN published :
    (AttachedWhenPublished(s, i) /\ DoneReading(s))
      => /\ i - sub[s].since \in DOMAIN received[s]
         /\ received[s][i - sub[s].since] = published[i].msg

\* C10 amended: delivery is broadcast to the endpoints that keep up: the last
\* Capacity messages published are in the channel whoever has read them, and
\* every attached endpoint has received each message published since it
\* subscribed up to its cursor, has the next one ready whenever it is not more
\* than Capacity behind, and so has them all once it has caught up.
C10_Broadcast ==
  /\ \A i \in DOMAIN published :
       tail - (i - 1) <= Capacity
         => buffer[(i - 1) % Capacity] = [pos |-> i - 1, val |-> published[i].msg]
  /\ \A s \in Subs : \A i \in DOMAIN published :
       (sub[s].state = "open" /\ i > sub[s].since)
         => IF i <= sub[s].next
              THEN /\ i - sub[s].since \in DOMAIN received[s]
                   /\ received[s][i - sub[s].since] = published[i].msg
              ELSE tail - sub[s].next <= Capacity => RecvReady(sub[s].next)

\* Two endpoints attached when a Response was published have both received it.
C10_Witness ==
  \E s, t \in Subs :
    /\ s # t
    /\ sub[s].state = "open" /\ sub[t].state = "open"
    /\ sub[s].since = 0 /\ sub[t].since = 0
    /\ Len(received[s]) >= 1 /\ Len(received[t]) >= 1
    /\ received[s][1] = received[t][1]

\* x is one of the pieces a text is made of.
InText(x, t) == \E i \in DOMAIN t : t[i] = x

\* C15: a Request without id whose method is not notifications/initialized,
\* and a Request with method notifications/initialized (with or without id):
\* no handler is called, no Response is built, no publish attempt is made,
\* nothing is published and no delivery warning is logged.
C15_DroppedSilently ==
  \A r \in Reqs :
    (req[r] # NoReq /\ (req[r].id = Null \/ req[r].method = "notifications/initialized"))
      => /\ task[r].calls = 0
         /\ task[r].pc # "handler" /\ task[r].pc # "publish"
         /\ task[r].result = NoResult
         /\ task[r].attempts = 0
         /\ ~task[r].warned
         /\ Sent(r) = {}

\* A call of a registered tool without id has been dropped, its task over,
\* while an endpoint is attached.
C15_Witness ==
  \E r \in Reqs :
    /\ req[r] = Call(Null)
    /\ task[r].pc = "done"
    /\ http[r].status = 202
    /\ rx_cnt > 0

\* C16: a tools/call with an id whose tool name is not registered (a missing
\* name reads as ""): no handler is called, and the Response built and
\* published has isError, a text that contains the name, and the Request's id.
C16_UnknownTool ==
  \A r \in Reqs :
    (req[r].method = "tools/call" /\ req[r].id # Null /\ tool_name(req[r]) \notin KnownTools)
      => /\ task[r].calls = 0
         /\ task[r].pc # "handler"
         /\ task[r].pc \in {"publish", "done"} =>
              /\ task[r].result.isError
              /\ InText(tool_name(req[r]), task[r].result.text)
         /\ \A i \in Sent(r) :
              /\ MsgId(published[i].msg) = req[r].id
              /\ MsgResult(published[i].msg).isError
              /\ InText(tool_name(req[r]), MsgResult(published[i].msg).text)

\* An endpoint has received the error Response that names "no_such_tool".
C16_Witness ==
  \E s \in Subs : \E i \in DOMAIN received[s] :
    /\ MsgId(received[s][i]) = "9"
    /\ "isError" \in DOMAIN MsgResult(received[s][i])
    /\ MsgResult(received[s][i]).isError
    /\ InText("no_such_tool", MsgResult(received[s][i]).text)

\* The handler called for request r has returned an error.
HandlerFailed(r) ==
  /\ task[r].calls >= 1
  /\ task[r].pc \in {"publish", "done"}
  /\ task[r].result.isError

\* C18: a handler is called at most once per Request, and when it fails with
\* a backing-store error there is one error Response, with isError and the
\* Request's id, sent at most once, whatever the number of publish attempts.
C18_HandlerCalledOnce ==
  \A r \in Reqs :
    /\ task[r].calls <= 1
    /\ HandlerFailed(r) =>
         /\ task[r].result = ToolErr(Sqlx)
         /\ Cardinality(Sent(r)) <= 1
         /\ \A i \in Sent(r) :
              /\ MsgId(published[i].msg) = req[r].id
              /\ MsgResult(published[i].msg) = ToolErr(Sqlx)

\* The error Response of a failed handler was sent at the third attempt:
\* the publish was retried twice, the handler called once.
C18_Witness ==
  \E r \in Reqs :
    /\ HandlerFailed(r)
    /\ task[r].attempts = MaxAttempts
    /\ task[r].delivered
    /\ task[r].calls = 1

\* C20: a Request with an id whose method is none of initialize, tools/list,
\* tools/call, notifications/initialized: no handler is called, and the
\* Response built and published is json_error("Method <m> not supported")
\* with the Request's id.
C20_UnsupportedMethod ==
  \A r \in Reqs :
    (req[r] # NoReq /\ req[r].id # Null
       /\ req[r].method \notin {"initialize", "tools/list", "tools/call",
                                "notifications/initialized"})
      => /\ task[r].calls = 0
         /\ task[r].pc # "handler"
         /\ task[r].pc \in {"publish", "done"} =>
              /\ task[r].result.isError
              /\ task[r].result.text = <<"Method ", req[r].method, " not supported">>
         /\ \A i \in Sent(r) :
              /\ MsgId(published[i].msg) = req[r].id
              /\ MsgResult(published[i].msg).isError
              /\ MsgResult(published[i].msg).text = <<"Method ", req[r].method, " not supported">>

\* An endpoint has received the error Response to resources/list.
C20_Witness ==
  \E r \in Reqs : \E s \in Subs : \E i \in DOMAIN received[s] :
    /\ req[r].method = "resources/list"
    /\ MsgId(received[s][i]) = req[r].id
    /\ MsgResult(received[s][i]).isError
    /\ InText(" not supported", MsgResult(received[s][i]).text)

\* The handler of the call has returned.
Returned == call.pc \in {"returned", "matched"}

\* The query text and the table name the handler was given.
SqlGiven == unwrap_or(call.sql, <<>>)
TableGiven == unwrap_or(call.table, <<>>)

\* The handler returned the JSON array of some rows.
ReturnedRows == Returned /\ call.res.ok /\ call.res.val.kind = "rows"

\* C11: sql_read_query of a text that, trimmed and case-folded, begins with
\* neither SELECT nor WITH (the empty text and a missing sql included) returns
\* the read-only-mode error and makes no store call.
C11_GuardRejects ==
  (Returned /\ call.tool = "sql_read_query" /\ ~is_read_only(SqlGiven))
    => /\ ~call.res.ok
       /\ call.res.val.kind = "Api"
       /\ call.queries = 0

\* A character of [A-Za-z0-9_].
IsIdentChar(c) == c \in AsciiAlphanumeric \cup {"_"}

\* C12: describe_table of a name that is empty or holds a character outside
\* [A-Za-z0-9_] returns an error and makes no store call.
C12_IdentifierGuardRejects ==
  (Returned /\ call.tool = "describe_table"
     /\ (TableGiven = <<>> \/ \E i \in DOMAIN TableGiven : ~IsIdentChar(TableGiven[i])))
    => /\ ~call.res.ok
       /\ call.queries = 0

\* C13: the text returned by sql_read_query and by the tools built on
\* query_to_json carries the truncation notice exactly when it holds MAX_ROWS
\* rows, and its rows are the first rows of the underlying query, in the
\* query's order.
C13_NoticeIffCap ==
  (ReturnedRows /\ call.tool \in {"sql_read_query", "portfolio_performance",
                                  "sector_exposure", "at_risk_positions"})
    => LET rows == call.res.val.rows
       IN /\ call.res.val.notice <=> (Len(rows) = MAX_ROWS)
          /\ Len(rows) = (IF call.n < MAX_ROWS THEN call.n ELSE MAX_ROWS)
          /\ rows = SubSeq(Underlying(call.n), 1, Len(rows))

\* A query of exactly MAX_ROWS rows came back whole, with the notice.
C13_Witness ==
  /\ ReturnedRows /\ call.tool = "sql_read_query"
  /\ call.n = MAX_ROWS
  /\ Len(call.res.val.rows) = MAX_ROWS
  /\ call.res.val.notice

\* C14: the row array a tool returns holds at most MAX_ROWS rows.
C14_AtMostMaxRows ==
  ReturnedRows => Len(call.res.val.rows) <= MAX_ROWS

\* C17 (NotFound): describe_table of a well-formed name the store does not
\* know ends as an error Response.
C17_UnknownTableIsError ==
  (call.pc = "matched" /\ call.tool = "describe_table" /\ ValidTable(TableGiven)
     /\ ~call.fails /\ call.n = 0)
    => call.result.isError

\* Nothing is left to do for the requests submitted so far, but for the
\* handler of request Hung: every Request is acknowledged; every Request
\* other than Hung is over, its Response published if an endpoint is attached
\* since before it was submitted; every open stream has read up to the tail.
Settled ==
  /\ \A q \in Reqs : req[q] # NoReq => http[q].status # 0
  /\ \A q \in Reqs \ {Hung} :
       req[q] # NoReq =>
         /\ Over(q)
         /\ (Answerable(q) /\ \E s \in Subs : ConnectedBefore(s, q)) => task[q].delivered
  /\ \A s \in Subs : sub[s].state = "open" => CaughtUp(s)

\* C19: under fair scheduling, whether or not the handler of request Hung
\* ever returns, the system settles again and again: whatever is submitted,
\* before or after Hung, is acknowledged, processed and (an endpoint being
\* attached) published, and the open streams receive what was published.
C19_HungHandlerBlocksNothing == []<>Settled

\* The handler of request Hung has not returned; the requests submitted
\* before and after it are acknowledged and over, and an endpoint has
\* received both their Responses.
C19_Witness ==
  \E s \in Subs :
    /\ task[Hung].pc = "handler"
    /\ \A q \in Reqs \ {Hung} :
         /\ http[q].status = 202
         /\ task[q].pc = "done" /\ task[q].delivered
         /\ IdCount(s, req[q].id) = 1
    /\ sub[s].state = "open"

\* The task of request r, a tools/list with an id, has built its result.
Listed(r) ==
  /\ req[r].method = "tools/list" /\ req[r].id # Null
  /\ task[r].pc \in {"publish", "done"}

\* C21: any two tools/list invocations of a run, whatever happened between
\* them, build the same result, and what is published for them carries that
\* result; the descriptors are in declaration order and no name comes twice.
C21_ListingDeterministic ==
  \A r \in Reqs :
    Listed(r) =>
      LET tools == task[r].result.tools
      IN /\ \A q \in Reqs : Listed(q) => task[q].result = task[r].result
         /\ \A i \in Sent(r) : MsgResult(published[i].msg) = task[r].result
         /\ tools = <<"sql_read_query", "list_tables", "describe_table",
                      "portfolio_performance", "at_risk_positions", "sector_exposure">>
         /\ \A i, j \in DOMAIN tools : tools[i] = tools[j] => i = j

\* Two listings were published, the Response of a tool call between them,
\* and an endpoint has received the three.
C21_Witness ==
  \E s \in Subs :
    /\ Listed(1) /\ Listed(3)
    /\ Len(published) = 3
    /\ published[1].req = 1 /\ published[2].req = 2 /\ published[3].req = 3
    /\ received[s] = PublishedMsgs
    /\ MsgResult(received[s][1]) = MsgResult(received[s][3])
    /\ MsgId(received[s][1]) # MsgId(received[s][3])

\* C22 as stated, the part about a late subscriber: a Response published at
\* its second or third attempt was published to subscribers that attached
\* after the first, failed, attempt (none was attached at it); each of them,
\* once it reads nothing more, has received the Response.
C22_Original ==
  \A r \in Reqs : \A s \in Subs : \A i \in Sent(r) :
    (task[r].attempts >= 2 /\ AttachedWhenPublished(s, i) /\ DoneReading(s))
      => /\ i - sub[s].since \in DOMAIN received[s]
         /\ received[s][i - sub[s].since] = published[i].msg

\* What C22 says of the state a step leads to: the warning is logged for a
\* Response exactly when its three attempts all failed, and a subscriber that
\* attached after a failed attempt and is attached since has received the
\* Response published by a later attempt once its cursor is past it, and has
\* the next message ready while it is not more than Capacity behind.
C22_After ==
  /\ \A r \in Reqs :
       task[r].warned <=> (task[r].attempts = MaxAttempts /\ Sent(r) = {})
  /\ \A r \in Reqs : \A s \in Subs : \A i \in Sent(r) :
       (task[r].attempts >= 2 /\ sub[s].state = "open" /\ i > sub[s].since)
         => IF i <= sub[s].next
              THEN /\ i - sub[s].since \in DOMAIN received[s]
                   /\ received[s][i - sub[s].since] = published[i].msg
              ELSE tail - sub[s].next <= Capacity => RecvReady(sub[s].next)

\* C22 amended: a publish attempt fails exactly when no endpoint is attached
\* at the instant of the attempt, and succeeds, publishing the Response,
\* exactly when one is; the warning is logged at the third attempt exactly
\* when no endpoint is attached at it either, so a Response is abandoned
\* exactly when none was attached at any of its three attempts; a subscriber
\* that attaches after a failed attempt and before a later one receives the
\* Response provided it stays attached and does not fall more than Capacity
\* messages behind before reading it.
C22_FailsIffNoSubscriber ==
  [][/\ \A r \in Reqs :
          Attempt(r)
            => /\ ~task[r].delivered /\ Sent(r) = {}
               /\ task'[r].delivered <=> rx_cnt > 0
               /\ Sent(r)' # {} <=> rx_cnt > 0
               /\ task'[r].warned <=> (rx_cnt = 0 /\ task'[r].attempts = MaxAttempts)
               /\ (rx_cnt = 0 /\ task'[r].attempts < MaxAttempts) => task'[r].pc = "publish"
     /\ C22_After']_vars

\* One Response abandoned after three attempts without any subscriber, and
\* another published at its second or third attempt to a subscriber that
\* attached after its first attempt and has received it.
C22_Witness ==
  \E r, q \in Reqs : \E s \in Subs : \E i \in Sent(r) :
    /\ task[q].warned /\ task[q].attempts = MaxAttempts /\ Sent(q) = {}
    /\ task[r].delivered /\ task[r].attempts >= 2
    /\ sub[s].state = "open" /\ sub[s].since < i
    /\ i - sub[s].since \in DOMAIN received[s]
    /\ received[s][i - sub[s].since] = published[i].msg

\* Request r is a tool call with an id whose task is past `match tool_name`.
Resolved(r) ==
  /\ req[r].method = "tools/call" /\ req[r].id # Null
  /\ task[r].pc \in {"handler", "publish", "done"}

\* C23: the names tools/list advertises are the names tools/call dispatches
\* to a handler: a call of an advertised name has its handler called (once)
\* and is never answered with the unknown-tool error, a call whose handler is
\* called names an advertised tool, and a call of any other name is answered
\* with the unknown-tool error without any handler being called.
C23_AdvertisedIsDispatched ==
  /\ Advertised = KnownTools
  /\ \A r \in Reqs :
       Resolved(r) =>
         LET name == tool_name(req[r])
             unknown == ToolErr(UnknownTool(name))
         IN /\ name \in Advertised =>
                 /\ task[r].calls = 1
                 /\ task[r].result # unknown
                 /\ \A i \in Sent(r) : MsgResult(published[i].msg) # unknown
            /\ task[r].calls >= 1 => name \in Advertised
            /\ name \notin Advertised =>
                 /\ task[r].calls = 0
                 /\ task[r].result = unknown

\* An endpoint has received the Response of a call of the tool advertised
\* last, a result computed by its handler.
C23_Witness ==
  \E r \in Reqs : \E s \in Subs : \E i \in DOMAIN received[s] :
    /\ Resolved(r) /\ task[r].pc = "done"
    /\ tool_name(req[r]) = handle_list_tools.tools[Len(handle_list_tools.tools)]
    /\ task[r].calls = 1
    /\ received[s][i] = to_string(McpResponse(req[r].id, task[r].result))
    /\ ~MsgResult(received[s][i]).isError

=============================================================================
